---- MODULE Spec2Model ----
(***************************************************************************)
(* Model of the Erc20 ink! contract of src/lib.rs: the storage struct      *)
(* (total_supply, balances, allowances), the constructor new, the queries  *)
(* total_supply / balance_of / allowance and the messages transfer,        *)
(* approve and transfer_from with the private helper inner_transfer.       *)
(* The events emitted through env().emit_event are kept in the log         *)
(* `events`; the message that ran last and the Result it returned are kept *)
(* in `last`, the constructor's caller and argument in `ctor`, and the     *)
(* number of messages run so far in `calls`.  Each message is one atomic   *)
(* step: the host runs one call at a time.                                 *)
(***************************************************************************)
EXTENDS Integers, Sequences, FiniteSets, TLC

\* ---------------------------------------------------------------- bounds
\* Width in bits of the unsigned Balance type in the model.
BalanceBits == 2

\* Largest supply handed to the constructor.
MaxSupply == 2

\* Largest value argument of transfer, approve and transfer_from.
MaxValue == 2

\* Largest number of messages run after the constructor.
MaxCalls == 2

\* Largest number of messages run after the constructor when only one owner
\* and one spender call (PairSpec).
MaxPairCalls == 4

\* ---------------------------------------------------------------- types
\* AccountId values: alice, bob and eve of the tests.
Accounts == {"alice", "bob", "eve"}

Modulus == 2 ^ BalanceBits

\* The values of the unsigned fixed-width type Balance.
Balance == 0 .. (Modulus - 1)

\* Arguments of type Balance handed to the messages.
Values == {v \in Balance : v <= MaxValue}

\* Supplies handed to the constructor.
Supplies == {s \in Balance : s <= MaxSupply}

\* The account that deploys the contract: alice, the caller of Erc20::new in
\* every test. The code compares account ids only for equality, so the
\* choice of the deployer among Accounts is immaterial.
Issuers == {"alice"}

\* Option<AccountId>::None
None == "None"

\* Error enum and the Ok(()) result
InsufficientBalance == "InsufficientBalance"

InsufficientAllowance == "InsufficientAllowance"

Ok == "Ok"

\* Event structs
Transfer(from, to, value) ==
    [kind |-> "Transfer", from |-> from, to |-> to, value |-> value]

Approval(owner, spender, value) ==
    [kind |-> "Approval", from |-> owner, to |-> spender, value |-> value]

\* ids of the constructor and the messages, as recorded in `last`
OpNew == "new"

OpTransfer == "transfer"

OpApprove == "approve"

OpTransferFrom == "transfer_from"

VARIABLES
    total_supply,   \* Lazy<Balance>
    balances,       \* HashMap<AccountId, Balance>: function on the keys present
    allowances,     \* HashMap<(AccountId, AccountId), Balance>
    events,         \* events emitted so far, oldest first
    last,           \* the message that ran last and the Result it returned
    ctor,           \* the constructor call: env().caller() and the supply argument
    calls,          \* number of messages run since the constructor
    granted         \* per (owner, spender): the amount of the owner's latest
                    \* approve and the amount transfer_from has moved since

vars == <<total_supply, balances, allowances, events, last, ctor, calls,
          granted>>

\* ------------------------------------------------------- HashMap helpers
\* HashMap::insert: adds the key or overwrites its value.
Insert(map, key, value) ==
    [k \in (DOMAIN map) \cup {key} |-> IF k = key THEN value ELSE map[k]]

\* HashMap::get(..).copied().unwrap_or_default()
GetOrDefault(map, key) ==
    IF key \in DOMAIN map THEN map[key] ELSE 0

\* HashMap::new()
EmptyMap == [k \in {} |-> 0]

\* Unsigned arithmetic of the fixed-width Balance type, wrapping at the
\* width as a build without overflow checks computes it.
Add(a, b) == (a + b) % Modulus

Sub(a, b) == (a - b) % Modulus

\* --------------------------------------------------------------- queries
BalanceOfIn(bals, who) == GetOrDefault(bals, who)

AllowanceIn(alls, owner, spender) == GetOrDefault(alls, <<owner, spender>>)

balance_of(who) == BalanceOfIn(balances, who)

allowance(owner, spender) == AllowanceIn(allowances, owner, spender)

TotalSupplyQuery == total_supply

\* The message that ran last and the Result it returned.
Call(op, ret) == [op |-> op, ret |-> ret]

\* History of the approvals: nothing approved, nothing spent.
NoGrants == [p \in Accounts \X Accounts |-> [approved |-> 0, spent |-> 0]]

\* approve by owner for spender: a new grant, nothing spent under it yet.
Granted(g, owner, spender, value) ==
    [g EXCEPT ![<<owner, spender>>] = [approved |-> value, spent |-> 0]]

\* A successful transfer_from by spender against owner.
Spent(g, owner, spender, value) ==
    [g EXCEPT ![<<owner, spender>>].spent = @ + value]

\* ----------------------------------------------------------- constructor
\* new with the total supply left at the default of Balance.
newDefaultSupply(caller, supply) ==
    /\ total_supply = 0
    /\ balances = Insert(EmptyMap, caller, supply)
    /\ allowances = EmptyMap
    /\ events = <<Transfer(None, caller, supply)>>
    /\ last = Call(OpNew, Ok)
    /\ ctor = [caller |-> caller, supply |-> supply]
    /\ calls = 0
    /\ granted = NoGrants

\* new with the issuance event naming the caller as its source.
newFromCaller(caller, supply) ==
    /\ total_supply = supply
    /\ balances = Insert(EmptyMap, caller, supply)
    /\ allowances = EmptyMap
    /\ events = <<Transfer(caller, caller, supply)>>
    /\ last = Call(OpNew, Ok)
    /\ ctor = [caller |-> caller, supply |-> supply]
    /\ calls = 0
    /\ granted = NoGrants

new(caller, supply) ==
    /\ total_supply = supply
    /\ balances = Insert(EmptyMap, caller, supply)
    /\ allowances = EmptyMap
    /\ events = <<Transfer(None, caller, supply)>>
    /\ last = Call(OpNew, Ok)
    /\ ctor = [caller |-> caller, supply |-> supply]
    /\ calls = 0
    /\ granted = NoGrants

Init == \E caller \in Issuers, supply \in Supplies : new(caller, supply)

\* -------------------------------------------------------- inner_transfer
\* The result of inner_transfer on a balance table: the returned value, the
\* new table and the events emitted.
\* inner_transfer reading to_balance before the debit is written.
InnerTransferBalancesStaleTo(bals, from, to, value) ==
    LET debited == Insert(bals, from, Sub(BalanceOfIn(bals, from), value))
        to_balance == BalanceOfIn(bals, to)
    IN  Insert(debited, to, Add(to_balance, value))

\* inner_transfer without the debit of line 131.
InnerTransferBalancesNoDebit(bals, from, to, value) ==
    LET to_balance == BalanceOfIn(bals, to)
    IN  Insert(bals, to, Add(to_balance, value))

InnerTransferBalances(bals, from, to, value) ==
    LET debited == Insert(bals, from, Sub(BalanceOfIn(bals, from), value))
        to_balance == BalanceOfIn(debited, to)
    IN  Insert(debited, to, Add(to_balance, value))

\* inner_transfer with the balance check off by one (<= for <).
inner_transferOffByOne(bals, from, to, value) ==
    LET from_balance == BalanceOfIn(bals, from)
    IN  IF from_balance <= value
        THEN [ret |-> InsufficientBalance, balances |-> bals, emitted |-> <<>>]
        ELSE [ret |-> Ok,
              balances |-> InnerTransferBalances(bals, from, to, value),
              emitted |-> <<Transfer(from, to, value)>>]

\* inner_transfer leaving a zero-valued entry for `from` behind when it fails.
inner_transferTouchOnError(bals, from, to, value) ==
    LET from_balance == BalanceOfIn(bals, from)
    IN  IF from_balance < value
        THEN [ret |-> InsufficientBalance,
              balances |-> Insert(bals, from, from_balance),
              emitted |-> <<>>]
        ELSE [ret |-> Ok,
              balances |-> InnerTransferBalances(bals, from, to, value),
              emitted |-> <<Transfer(from, to, value)>>]

\* inner_transfer returning early, without an event, when from = to.
inner_transferSkipSelf(bals, from, to, value) ==
    LET from_balance == BalanceOfIn(bals, from)
    IN  IF from_balance < value
        THEN [ret |-> InsufficientBalance, balances |-> bals, emitted |-> <<>>]
        ELSE IF from = to
        THEN [ret |-> Ok, balances |-> bals, emitted |-> <<>>]
        ELSE [ret |-> Ok,
              balances |-> InnerTransferBalances(bals, from, to, value),
              emitted |-> <<Transfer(from, to, value)>>]

\* inner_transfer without the balance check of lines 127-129.
inner_transferNoCheck(bals, from, to, value) ==
    [ret |-> Ok,
     balances |-> InnerTransferBalances(bals, from, to, value),
     emitted |-> <<Transfer(from, to, value)>>]

inner_transfer(bals, from, to, value) ==
    LET from_balance == BalanceOfIn(bals, from)
    IN  IF from_balance < value
        THEN [ret |-> InsufficientBalance, balances |-> bals, emitted |-> <<>>]
        ELSE [ret |-> Ok,
              balances |-> InnerTransferBalances(bals, from, to, value),
              emitted |-> <<Transfer(from, to, value)>>]

\* --------------------------------------------------------------- messages
transfer(caller, to, value) ==
    LET r == inner_transfer(balances, caller, to, value)
    IN  /\ calls' = calls + 1
        /\ balances' = r.balances
        /\ events' = events \o r.emitted
        /\ last' = Call(OpTransfer, r.ret)
        /\ UNCHANGED <<total_supply, allowances, ctor, granted>>

\* approve adding the value to the allowance already stored.
approveAccumulate(caller, to, value) ==
    /\ calls' = calls + 1
    /\ allowances' = Insert(allowances, <<caller, to>>,
                            Add(allowance(caller, to), value))
    /\ events' = Append(events, Approval(caller, to, value))
    /\ last' = Call(OpApprove, Ok)
    /\ granted' = Granted(granted, caller, to, value)
    /\ UNCHANGED <<total_supply, balances, ctor>>

\* approve refusing a value above the caller's balance.
approveCapped(caller, to, value) ==
    IF value > balance_of(caller)
    THEN /\ calls' = calls + 1
         /\ last' = Call(OpApprove, InsufficientBalance)
         /\ UNCHANGED <<total_supply, balances, allowances, events, ctor,
                        granted>>
    ELSE /\ calls' = calls + 1
         /\ allowances' = Insert(allowances, <<caller, to>>, value)
         /\ events' = Append(events, Approval(caller, to, value))
         /\ last' = Call(OpApprove, Ok)
         /\ granted' = Granted(granted, caller, to, value)
         /\ UNCHANGED <<total_supply, balances, ctor>>

approve(caller, to, value) ==
    /\ calls' = calls + 1
    /\ allowances' = Insert(allowances, <<caller, to>>, value)
    /\ events' = Append(events, Approval(caller, to, value))
    /\ last' = Call(OpApprove, Ok)
    /\ granted' = Granted(granted, caller, to, value)
    /\ UNCHANGED <<total_supply, balances, ctor>>

\* transfer_from running inner_transfer before the allowance check.
transfer_fromBalanceFirst(caller, from, to, value) ==
    LET allow == allowance(from, caller)
        r == inner_transfer(balances, from, to, value)
    IN  /\ calls' = calls + 1
        /\ IF r.ret # Ok
           THEN /\ last' = Call(OpTransferFrom, r.ret)
                /\ UNCHANGED <<total_supply, balances, allowances, events, ctor,
                               granted>>
           ELSE IF allow < value
           THEN /\ last' = Call(OpTransferFrom, InsufficientAllowance)
                /\ UNCHANGED <<total_supply, balances, allowances, events, ctor,
                               granted>>
           ELSE /\ balances' = r.balances
                /\ events' = events \o r.emitted
                /\ allowances' = Insert(allowances, <<from, caller>>,
                                        Sub(allow, value))
                /\ last' = Call(OpTransferFrom, Ok)
                /\ granted' = Spent(granted, from, caller, value)
                /\ UNCHANGED <<total_supply, ctor>>

\* transfer_from writing the reduced allowance before inner_transfer runs.
transfer_fromEagerAllowance(caller, from, to, value) ==
    LET allow == allowance(from, caller)
        r == inner_transfer(balances, from, to, value)
    IN  /\ calls' = calls + 1
        /\ IF allow < value
           THEN /\ last' = Call(OpTransferFrom, InsufficientAllowance)
                /\ UNCHANGED <<total_supply, balances, allowances, events, ctor,
                               granted>>
           ELSE /\ balances' = r.balances
                /\ events' = events \o r.emitted
                /\ allowances' = Insert(allowances, <<from, caller>>,
                                        Sub(allow, value))
                /\ last' = Call(OpTransferFrom, r.ret)
                /\ granted' = IF r.ret = Ok
                              THEN Spent(granted, from, caller, value)
                              ELSE granted
                /\ UNCHANGED <<total_supply, ctor>>

\* transfer_from writing the reduced allowance under the key (caller, from).
transfer_fromSwappedKey(caller, from, to, value) ==
    LET allow == allowance(from, caller)
        r == inner_transfer(balances, from, to, value)
    IN  /\ calls' = calls + 1
        /\ IF allow < value
           THEN /\ last' = Call(OpTransferFrom, InsufficientAllowance)
                /\ UNCHANGED <<total_supply, balances, allowances, events, ctor,
                               granted>>
           ELSE /\ balances' = r.balances
                /\ events' = events \o r.emitted
                /\ allowances' = IF r.ret = Ok
                                 THEN Insert(allowances, <<caller, from>>,
                                             Sub(allow, value))
                                 ELSE allowances
                /\ last' = Call(OpTransferFrom, r.ret)
                /\ granted' = IF r.ret = Ok
                              THEN Spent(granted, from, caller, value)
                              ELSE granted
                /\ UNCHANGED <<total_supply, ctor>>

\* transfer_from emitting an Approval with the remaining allowance after the
\* Transfer.
transfer_fromWithApproval(caller, from, to, value) ==
    LET allow == allowance(from, caller)
        r == inner_transfer(balances, from, to, value)
    IN  /\ calls' = calls + 1
        /\ IF allow < value
           THEN /\ last' = Call(OpTransferFrom, InsufficientAllowance)
                /\ UNCHANGED <<total_supply, balances, allowances, events, ctor,
                               granted>>
           ELSE /\ balances' = r.balances
                /\ events' = IF r.ret = Ok
                             THEN Append(events \o r.emitted,
                                         Approval(from, caller,
                                                  Sub(allow, value)))
                             ELSE events
                /\ allowances' = IF r.ret = Ok
                                 THEN Insert(allowances, <<from, caller>>,
                                             Sub(allow, value))
                                 ELSE allowances
                /\ last' = Call(OpTransferFrom, r.ret)
                /\ granted' = IF r.ret = Ok
                              THEN Spent(granted, from, caller, value)
                              ELSE granted
                /\ UNCHANGED <<total_supply, ctor>>

\* transfer_from using up the whole allowance whatever the value moved.
transfer_fromClearsAllowance(caller, from, to, value) ==
    LET allow == allowance(from, caller)
        r == inner_transfer(balances, from, to, value)
    IN  /\ calls' = calls + 1
        /\ IF allow < value
           THEN /\ last' = Call(OpTransferFrom, InsufficientAllowance)
                /\ UNCHANGED <<total_supply, balances, allowances, events, ctor,
                               granted>>
           ELSE /\ balances' = r.balances
                /\ events' = events \o r.emitted
                /\ allowances' = IF r.ret = Ok
                                 THEN Insert(allowances, <<from, caller>>, 0)
                                 ELSE allowances
                /\ last' = Call(OpTransferFrom, r.ret)
                /\ granted' = IF r.ret = Ok
                              THEN Spent(granted, from, caller, value)
                              ELSE granted
                /\ UNCHANGED <<total_supply, ctor>>

\* transfer_from without the allowance check of lines 115-117.
transfer_fromNoAllowanceCheck(caller, from, to, value) ==
    LET allow == allowance(from, caller)
        r == inner_transfer(balances, from, to, value)
    IN  /\ calls' = calls + 1
        /\ balances' = r.balances
        /\ events' = events \o r.emitted
        /\ allowances' = IF r.ret = Ok
                         THEN Insert(allowances, <<from, caller>>,
                                     Sub(allow, value))
                         ELSE allowances
        /\ last' = Call(OpTransferFrom, r.ret)
        /\ granted' = IF r.ret = Ok
                      THEN Spent(granted, from, caller, value)
                      ELSE granted
        /\ UNCHANGED <<total_supply, ctor>>

\* transfer_from with the allowance check off by one (<= for <).
transfer_fromStrictAllowance(caller, from, to, value) ==
    LET allow == allowance(from, caller)
        r == inner_transfer(balances, from, to, value)
    IN  /\ calls' = calls + 1
        /\ IF allow <= value
           THEN /\ last' = Call(OpTransferFrom, InsufficientAllowance)
                /\ UNCHANGED <<total_supply, balances, allowances, events, ctor,
                               granted>>
           ELSE /\ balances' = r.balances
                /\ events' = events \o r.emitted
                /\ allowances' = IF r.ret = Ok
                                 THEN Insert(allowances, <<from, caller>>,
                                             Sub(allow, value))
                                 ELSE allowances
                /\ last' = Call(OpTransferFrom, r.ret)
                /\ granted' = IF r.ret = Ok
                              THEN Spent(granted, from, caller, value)
                              ELSE granted
                /\ UNCHANGED <<total_supply, ctor>>

transfer_from(caller, from, to, value) ==
    LET allow == allowance(from, caller)
        r == inner_transfer(balances, from, to, value)
    IN  /\ calls' = calls + 1
        /\ IF allow < value
           THEN /\ last' = Call(OpTransferFrom, InsufficientAllowance)
                /\ UNCHANGED <<total_supply, balances, allowances, events, ctor,
                               granted>>
           ELSE /\ balances' = r.balances
                /\ events' = events \o r.emitted
                /\ allowances' = IF r.ret = Ok
                                 THEN Insert(allowances, <<from, caller>>,
                                             Sub(allow, value))
                                 ELSE allowances
                /\ last' = Call(OpTransferFrom, r.ret)
                /\ granted' = IF r.ret = Ok
                              THEN Spent(granted, from, caller, value)
                              ELSE granted
                /\ UNCHANGED <<total_supply, ctor>>

TransferStep ==
    /\ calls < MaxCalls
    /\ \E caller \in Accounts, to \in Accounts, value \in Values :
          transfer(caller, to, value)

ApproveStep ==
    /\ calls < MaxCalls
    /\ \E caller \in Accounts, to \in Accounts, value \in Values :
          approve(caller, to, value)

TransferFromStep ==
    /\ calls < MaxCalls
    /\ \E caller \in Accounts, from \in Accounts, to \in Accounts,
          value \in Values :
          transfer_from(caller, from, to, value)

Next == TransferStep \/ ApproveStep \/ TransferFromStep

Spec == Init /\ [][Next]_vars

\* ------------------------------------------------- one owner, one spender
\* The delegated-transfer scenario of tests::transfer_from_works run longer:
\* alice, who holds the supply, approves bob, and bob calls transfer_from
\* against alice towards any account.
Owner == "alice"

Spender == "bob"

PairApproveStep ==
    /\ calls < MaxPairCalls
    /\ \E value \in Values : approve(Owner, Spender, value)

PairTransferFromStep ==
    /\ calls < MaxPairCalls
    /\ \E to \in Accounts, value \in Values :
          transfer_from(Spender, Owner, to, value)

PairNext == PairApproveStep \/ PairTransferFromStep

PairSpec == Init /\ [][PairNext]_vars

\* ================================================================ claims
RECURSIVE SumOver(_, _)
\* Sum of balance_of(a) over the accounts of S in the table bals.
SumOver(bals, S) ==
    IF S = {} THEN 0
    ELSE LET a == CHOOSE x \in S : TRUE
         IN  BalanceOfIn(bals, a) + SumOver(bals, S \ {a})

LastEvent == events[Len(events)]

\* C1: in every reachable state the sum of balance_of(a) over all accounts
\* equals total_supply().
C1_Conservation ==
    SumOver(balances, Accounts) = TotalSupplyQuery

\* C1 witness: a delegated transfer has succeeded and two accounts hold tokens.
C1_Witness ==
    /\ last = Call(OpTransferFrom, Ok)
    /\ LastEvent.value > 0
    /\ Cardinality({a \in Accounts : balance_of(a) > 0}) >= 2
    /\ SumOver(balances, Accounts) = TotalSupplyQuery

\* C2: after any sequence of transfer, approve and transfer_from calls
\* total_supply() returns exactly the supply value passed to new.
C2_TotalSupplyImmutable ==
    TotalSupplyQuery = ctor.supply

\* C2 witness: two messages have succeeded after construction with a
\* non-zero supply, and total_supply() is still the constructor's argument.
C2_Witness ==
    /\ calls = MaxCalls
    /\ Len(events) >= 3
    /\ ctor.supply > 0
    /\ TotalSupplyQuery = ctor.supply

\* C3: immediately after new(supply) invoked by issuer, total_supply() is
\* supply, balance_of(issuer) is supply, every other balance is 0, every
\* allowance is 0 and the log is exactly one Transfer(None, issuer, supply).
C3_Construction ==
    last.op = OpNew =>
        /\ TotalSupplyQuery = ctor.supply
        /\ balance_of(ctor.caller) = ctor.supply
        /\ \A a \in Accounts \ {ctor.caller} : balance_of(a) = 0
        /\ \A o \in Accounts, sp \in Accounts : allowance(o, sp) = 0
        /\ events = <<Transfer(None, ctor.caller, ctor.supply)>>

\* C3 witness: the state right after construction with a non-zero supply.
C3_Witness ==
    /\ last.op = OpNew
    /\ ctor.supply > 0
    /\ balance_of(ctor.caller) = ctor.supply
    /\ Len(events) = 1

\* C4: transfer(to, amount) by caller returns Err(InsufficientBalance)
\* exactly when balance_of(caller) < amount before the call and Ok
\* otherwise; on the error every balance is as before and no event is added.
C4_TransferResult ==
    [][\A c \in Accounts, t \in Accounts, v \in Values :
          transfer(c, t, v) =>
            /\ last'.op = OpTransfer
            /\ (last'.ret = InsufficientBalance) <=> (balance_of(c) < v)
            /\ (last'.ret = Ok) <=> (balance_of(c) >= v)
            /\ (last'.ret = InsufficientBalance) =>
                  /\ \A a \in Accounts :
                        BalanceOfIn(balances', a) = balance_of(a)
                  /\ events' = events]_vars

\* C4 witness: a transfer has failed with InsufficientBalance after an
\* earlier message had moved tokens.
C4_Witness ==
    /\ last = Call(OpTransfer, InsufficientBalance)
    /\ Len(events) >= 2
    /\ \E a \in Accounts : balance_of(a) > 0 /\ balance_of(a) < MaxValue

\* C5: a successful transfer(to, amount) by caller with caller # to leaves
\* balance_of(caller) at its old value minus amount, balance_of(to) at its
\* old value plus amount, and every other balance and every allowance entry
\* unchanged.
C5_TransferEffect ==
    [][\A c \in Accounts, t \in Accounts, v \in Values :
          (transfer(c, t, v) /\ last'.ret = Ok /\ c # t) =>
            /\ BalanceOfIn(balances', c) = balance_of(c) - v
            /\ BalanceOfIn(balances', t) = balance_of(t) + v
            /\ \A a \in Accounts \ {c, t} :
                  BalanceOfIn(balances', a) = balance_of(a)
            /\ allowances' = allowances]_vars

\* C5 witness: a transfer of a non-zero amount between two different
\* accounts has succeeded while an allowance entry exists.
C5_Witness ==
    /\ last = Call(OpTransfer, Ok)
    /\ LastEvent.kind = "Transfer"
    /\ LastEvent.from # LastEvent.to
    /\ LastEvent.value > 0
    /\ balance_of(LastEvent.to) >= LastEvent.value
    /\ DOMAIN allowances # {}

\* C6: approve overwrites: whatever allowance(caller, spender) was, after
\* approve(spender, amount) by caller it is exactly amount (two approves of
\* x then y leave y, not x + y).
C6_ApproveOverwrites ==
    [][\A c \in Accounts, sp \in Accounts, v \in Values :
          approve(c, sp, v) =>
            /\ last' = Call(OpApprove, Ok)
            /\ AllowanceIn(allowances', c, sp) = v]_vars

\* C6 witness: two approves in a row for the same pair with non-zero
\* amounts x then y; the allowance is y and y differs from x + y.
C6_Witness ==
    /\ Len(events) >= 3
    /\ last = Call(OpApprove, Ok)
    /\ LET x == events[Len(events) - 1]
           y == events[Len(events)]
       IN  /\ x.kind = "Approval" /\ y.kind = "Approval"
           /\ x.from = y.from /\ x.to = y.to
           /\ x.value > 0 /\ y.value > 0
           /\ allowance(y.from, y.to) = y.value

\* C7: transfer_from(from, to, amount) by caller returns
\* Err(InsufficientAllowance) exactly when allowance(from, caller) < amount
\* before the call, whatever the balance of from; with both the allowance
\* and the balance below amount the result is InsufficientAllowance.
C7_AllowanceCheckedFirst ==
    [][\A c \in Accounts, f \in Accounts, t \in Accounts, v \in Values :
          transfer_from(c, f, t, v) =>
            /\ last'.op = OpTransferFrom
            /\ (last'.ret = InsufficientAllowance) <=> (allowance(f, c) < v)
            /\ (allowance(f, c) < v /\ balance_of(f) < v) =>
                  last'.ret = InsufficientAllowance]_vars

\* C7 witness: a transfer_from has returned InsufficientAllowance in a
\* state where an owner's allowance to a spender and the owner's balance are
\* both below an amount, although another allowance has been approved.
C7_Witness ==
    /\ last = Call(OpTransferFrom, InsufficientAllowance)
    /\ \E f \in Accounts, c \in Accounts, v \in Values :
          allowance(f, c) < v /\ balance_of(f) < v
    /\ \E f \in Accounts, c \in Accounts : allowance(f, c) > 0

\* C8: with allowance(from, caller) >= amount and balance_of(from) < amount,
\* transfer_from returns Err(InsufficientBalance), allowance(from, caller) is
\* as before and no event is added.
C8_FailedTransferKeepsAllowance ==
    [][\A c \in Accounts, f \in Accounts, t \in Accounts, v \in Values :
          (transfer_from(c, f, t, v) /\ allowance(f, c) >= v
                                     /\ balance_of(f) < v) =>
            /\ last' = Call(OpTransferFrom, InsufficientBalance)
            /\ AllowanceIn(allowances', f, c) = allowance(f, c)
            /\ events' = events]_vars

\* C8 witness: a transfer_from has returned InsufficientBalance while some
\* owner's allowance to a spender exceeds the owner's balance.
C8_Witness ==
    /\ last = Call(OpTransferFrom, InsufficientBalance)
    /\ \E f \in Accounts, c \in Accounts :
          allowance(f, c) > balance_of(f) /\ allowance(f, c) > 0
    /\ LastEvent.kind = "Approval"

\* C9: a successful transfer_from(from, to, v) by caller lowers
\* allowance(from, caller) by exactly v, leaves every other allowance entry
\* unchanged, and moves v from the balance of from to the balance of to as
\* transfer by from does.
C9_TransferFromEffect ==
    [][\A c \in Accounts, f \in Accounts, t \in Accounts, v \in Values :
          (transfer_from(c, f, t, v) /\ last'.ret = Ok) =>
            /\ AllowanceIn(allowances', f, c) = allowance(f, c) - v
            /\ \A o \in Accounts, sp \in Accounts :
                  <<o, sp>> # <<f, c>> =>
                    /\ AllowanceIn(allowances', o, sp) = allowance(o, sp)
                    /\ (<<o, sp>> \in DOMAIN allowances')
                          <=> (<<o, sp>> \in DOMAIN allowances)
            /\ \A a \in Accounts :
                  BalanceOfIn(balances', a) =
                    balance_of(a) - (IF a = f /\ f # t THEN v ELSE 0)
                                  + (IF a = t /\ f # t THEN v ELSE 0)
            /\ events' = Append(events, Transfer(f, t, v))]_vars

\* C9 witness: a transfer_from of a non-zero amount between two different
\* accounts has succeeded and has left part of the allowance.
C9_Witness ==
    /\ last = Call(OpTransferFrom, Ok)
    /\ LastEvent.kind = "Transfer"
    /\ LastEvent.value > 0
    /\ LastEvent.from # LastEvent.to
    /\ \E c \in Accounts : allowance(LastEvent.from, c) > 0

\* C10: every transfer or transfer_from that returns an error leaves the
\* balance table and the allowance table with the same keys and values, the
\* total supply and the event log as they were.
C10_AllOrNothing ==
    [][/\ \A c \in Accounts, t \in Accounts, v \in Values :
            (transfer(c, t, v) /\ last'.ret # Ok) =>
              UNCHANGED <<total_supply, balances, allowances, events>>
       /\ \A c \in Accounts, f \in Accounts, t \in Accounts, v \in Values :
            (transfer_from(c, f, t, v) /\ last'.ret # Ok) =>
              UNCHANGED <<total_supply, balances, allowances, events>>]_vars

\* C10 witness: a transfer has failed for a caller with no entry in the
\* balance table, while an allowance entry exists.
C10_Witness ==
    /\ last.op \in {OpTransfer, OpTransferFrom}
    /\ last.ret = InsufficientBalance
    /\ \E a \in Accounts : a \notin DOMAIN balances
    /\ DOMAIN allowances # {}

\* C11: for any caller and any v <= balance_of(caller), transfer(caller, v)
\* by caller succeeds, leaves every balance unchanged and adds exactly one
\* event, Transfer(caller, caller, v).
C11_SelfTransfer ==
    [][\A c \in Accounts, v \in Values :
          (transfer(c, c, v) /\ v <= balance_of(c)) =>
            /\ last' = Call(OpTransfer, Ok)
            /\ \A a \in Accounts : BalanceOfIn(balances', a) = balance_of(a)
            /\ events' = Append(events, Transfer(c, c, v))]_vars

\* C11 witness: a holder has transferred a non-zero amount to itself.
C11_Witness ==
    /\ last = Call(OpTransfer, Ok)
    /\ LastEvent.kind = "Transfer"
    /\ LastEvent.from = LastEvent.to
    /\ LastEvent.value > 0
    /\ balance_of(LastEvent.from) >= LastEvent.value

\* C12: the log is the issuance Transfer followed by one event per
\* successful message, in call order: Transfer(from, to, value) for transfer
\* and transfer_from (and no Approval for transfer_from), Approval(caller,
\* spender, value) for approve; a failed message adds nothing.
C12_NotificationOrder ==
    [][/\ events[1] = Transfer(None, ctor.caller, ctor.supply)
       /\ \A c \in Accounts, t \in Accounts, v \in Values :
            transfer(c, t, v) =>
              events' = IF last'.ret = Ok
                        THEN Append(events, Transfer(c, t, v))
                        ELSE events
       /\ \A c \in Accounts, sp \in Accounts, v \in Values :
            approve(c, sp, v) =>
              events' = Append(events, Approval(c, sp, v))
       /\ \A c \in Accounts, f \in Accounts, t \in Accounts, v \in Values :
            transfer_from(c, f, t, v) =>
              events' = IF last'.ret = Ok
                        THEN Append(events, Transfer(f, t, v))
                        ELSE events]_vars

\* C12 witness: an approve and then a successful transfer_from have run;
\* the log is issuance, Approval, Transfer.
C12_Witness ==
    /\ last = Call(OpTransferFrom, Ok)
    /\ Len(events) = 3
    /\ events[1].from = None
    /\ events[2].kind = "Approval"
    /\ events[3].kind = "Transfer"
    /\ events[3].value > 0

\* A successful transfer_from by spender against owner has just moved
\* exactly the amount by which allowance(owner, spender) went down.
LoweredByTransferFrom(o, sp) ==
    \E t \in Accounts, v \in Values :
        /\ transfer_from(sp, o, t, v)
        /\ last'.ret = Ok
        /\ allowance(o, sp) - AllowanceIn(allowances', o, sp) = v

\* approve by owner for spender has just set a smaller allowance.
LoweredByApprove(o, sp) ==
    \E v \in Values :
        /\ approve(o, sp, v)
        /\ v < allowance(o, sp)
        /\ AllowanceIn(allowances', o, sp) = v

\* C13 as stated: whenever allowance(owner, spender) is lower after a
\* message than before, the message is a successful transfer_from by spender
\* against owner and the decrease is the amount transferred.
C13_OnlyTransferFromLowers ==
    [][\A o \in Accounts, sp \in Accounts :
          AllowanceIn(allowances', o, sp) < allowance(o, sp) =>
            LoweredByTransferFrom(o, sp)]_vars

\* C13 amended: whenever allowance(owner, spender) is lower after a message
\* than before, the message is either a successful transfer_from by spender
\* against owner that lowered it by exactly the amount transferred, or an
\* approve by owner for spender with a smaller amount; the allowance is
\* never negative.
C13_LoweredByTransferFromOrApprove ==
    [][\A o \in Accounts, sp \in Accounts :
          /\ AllowanceIn(allowances', o, sp) >= 0
          /\ AllowanceIn(allowances', o, sp) < allowance(o, sp) =>
                (LoweredByTransferFrom(o, sp) \/ LoweredByApprove(o, sp))]_vars

\* C13 witness: a successful transfer_from has lowered an approved
\* allowance by the amount it moved.
C13_Witness ==
    /\ last = Call(OpTransferFrom, Ok)
    /\ \E o \in Accounts, sp \in Accounts :
          /\ granted[<<o, sp>>].spent > 0
          /\ allowance(o, sp) < granted[<<o, sp>>].approved

\* C14: approve(spender, amount) succeeds for every caller, spender and
\* amount (amounts above the caller's balance or the total supply and
\* spender = caller included), changes no balance and no allowance entry
\* other than (caller, spender), and adds exactly one Approval event.
C14_ApproveAlwaysSucceeds ==
    [][\A c \in Accounts, sp \in Accounts, v \in Values :
          approve(c, sp, v) =>
            /\ last' = Call(OpApprove, Ok)
            /\ balances' = balances
            /\ total_supply' = total_supply
            /\ \A o \in Accounts, s2 \in Accounts :
                  <<o, s2>> # <<c, sp>> =>
                    /\ AllowanceIn(allowances', o, s2) = allowance(o, s2)
                    /\ (<<o, s2>> \in DOMAIN allowances')
                          <=> (<<o, s2>> \in DOMAIN allowances)
            /\ events' = Append(events, Approval(c, sp, v))]_vars

\* C14 witness: an account has approved itself for more than the total
\* supply and more than its balance, while another allowance is non-zero.
C14_Witness ==
    /\ last = Call(OpApprove, Ok)
    /\ LastEvent.kind = "Approval"
    /\ LastEvent.value > TotalSupplyQuery
    /\ LastEvent.value > balance_of(LastEvent.from)
    /\ LastEvent.from = LastEvent.to
    /\ allowance(LastEvent.from, LastEvent.to) = LastEvent.value
    /\ \E o \in Accounts, sp \in Accounts :
          <<o, sp>> # <<LastEvent.from, LastEvent.to>> /\ allowance(o, sp) > 0

\* C15: for a pair (owner, spender) whose approved amount is used up, or
\* that has had no approve at all, every transfer_from by spender against
\* owner with amount > 0 fails with InsufficientAllowance, until owner
\* approves spender again.
C15_StopsWhenUsedUp ==
    [][\A c \in Accounts, f \in Accounts, t \in Accounts, v \in Values :
          (/\ v > 0
           /\ granted[<<f, c>>].spent = granted[<<f, c>>].approved
           /\ transfer_from(c, f, t, v)) =>
            last' = Call(OpTransferFrom, InsufficientAllowance)]_vars

\* C15 witness: the owner approved a non-zero amount, the spender moved all
\* of it, and a further transfer_from has failed with InsufficientAllowance
\* although the owner still holds tokens.
C15_Witness ==
    /\ last = Call(OpTransferFrom, InsufficientAllowance)
    /\ granted[<<Owner, Spender>>].approved > 0
    /\ granted[<<Owner, Spender>>].spent = granted[<<Owner, Spender>>].approved
    /\ allowance(Owner, Spender) = 0
    /\ balance_of(Owner) > 0
    /\ LastEvent.kind = "Transfer"

\* The log ends with approve(N), a transfer of N out of the owner's balance,
\* approve(M), a transfer of M out of the owner's balance.
RaceTail(N, M) ==
    /\ Len(events) >= 5
    /\ LET n == Len(events)
       IN  /\ events[n - 3] = Approval(Owner, Spender, N)
           /\ events[n - 2].kind = "Transfer"
           /\ events[n - 2].from = Owner
           /\ events[n - 2].to # Owner
           /\ events[n - 2].value = N
           /\ events[n - 1] = Approval(Owner, Spender, M)
           /\ events[n].kind = "Transfer"
           /\ events[n].from = Owner
           /\ events[n].to # Owner
           /\ events[n].value = M

\* What has left the owner's balance since construction.
MovedOutOfOwner == ctor.supply - balance_of(Owner)

\* C17: after approve(owner -> spender, N), a successful transfer_from of N
\* by spender, approve(owner -> spender, M) and a successful transfer_from
\* of M by spender, the spender has moved N + M out of the owner's balance,
\* more than either approved amount, and the allowance is used up.
C17_BothAllowancesSpent ==
    \A N \in Values \ {0}, M \in Values \ {0} :
        RaceTail(N, M) =>
            /\ MovedOutOfOwner >= N + M
            /\ N + M > N /\ N + M > M
            /\ granted[<<Owner, Spender>>] = [approved |-> M, spent |-> M]
            /\ allowance(Owner, Spender) = 0

\* C17 witness: the sequence has run with non-zero N and M and exactly
\* N + M has left the owner's balance.
C17_Witness ==
    \E N \in Values \ {0}, M \in Values \ {0} :
        /\ RaceTail(N, M)
        /\ last = Call(OpTransferFrom, Ok)
        /\ MovedOutOfOwner = N + M
        /\ balance_of(Owner) = ctor.supply - N - M

\* The operands of lines 131 and 133 for inner_transfer(from, to, value) in
\* the current state, in unbounded integers: the subtraction does not go
\* below zero and the addition does not exceed the total supply, hence not
\* the largest Balance either.
NoWrapInInnerTransfer(from, to, value) ==
    LET from_balance == balance_of(from)
        debited == Insert(balances, from, from_balance - value)
        to_balance == BalanceOfIn(debited, to)
    IN  /\ from_balance - value >= 0
        /\ to_balance + value <= TotalSupplyQuery
        /\ to_balance + value <= Modulus - 1

\* C16: in every reachable state and for every call, from_balance - value
\* (line 131) and allowance - value (line 120) are executed only with a
\* non-negative result, and to_balance + value (line 133) never exceeds
\* total_supply, so it does not exceed the largest Balance.
C16_NoOverflow ==
    [][/\ \A c \in Accounts, t \in Accounts, v \in Values :
            (transfer(c, t, v) /\ last'.ret = Ok) =>
              NoWrapInInnerTransfer(c, t, v)
       /\ \A c \in Accounts, f \in Accounts, t \in Accounts, v \in Values :
            (transfer_from(c, f, t, v) /\ last'.ret = Ok) =>
              /\ allowance(f, c) - v >= 0
              /\ NoWrapInInnerTransfer(f, t, v)]_vars

\* C16 witness: the whole non-zero supply has just moved to another account,
\* so to_balance + value reached total_supply.
C16_Witness ==
    /\ last.ret = Ok
    /\ last.op \in {OpTransfer, OpTransferFrom}
    /\ LastEvent.kind = "Transfer"
    /\ LastEvent.from # LastEvent.to
    /\ LastEvent.value = TotalSupplyQuery
    /\ TotalSupplyQuery > 0
    /\ balance_of(LastEvent.to) = TotalSupplyQuery

\* C18: balance_of(a) is lower after a message than before only if the
\* message is a successful transfer called by a, or a successful
\* transfer_from(from = a, .., amount) by a caller c whose allowance(a, c)
\* before the call was at least amount.
C18_Authorization ==
    [][\A a \in Accounts :
          BalanceOfIn(balances', a) < balance_of(a) =>
            \/ \E t \in Accounts, v \in Values :
                  transfer(a, t, v) /\ last'.ret = Ok
            \/ \E c \in Accounts, t \in Accounts, v \in Values :
                  /\ transfer_from(c, a, t, v)
                  /\ last'.ret = Ok
                  /\ allowance(a, c) >= v]_vars

\* C18 witness: a transfer_from has lowered the balance of an account that
\* had approved some spender.
C18_Witness ==
    /\ last = Call(OpTransferFrom, Ok)
    /\ LastEvent.kind = "Transfer"
    /\ LastEvent.from # LastEvent.to
    /\ LastEvent.value > 0
    /\ balance_of(LastEvent.from) < ctor.supply
    /\ \E c \in Accounts : granted[<<LastEvent.from, c>>].spent > 0

\* C19: for every pair (owner, spender), allowance(owner, spender) plus the
\* total moved by successful transfer_from calls of spender against owner
\* since owner's latest approve for spender equals the amount of that
\* approve (zero if there was none); so the allowance never exceeds it.
C19_AllowanceAccounting ==
    \A o \in Accounts, sp \in Accounts :
        /\ allowance(o, sp) + granted[<<o, sp>>].spent
             = granted[<<o, sp>>].approved
        /\ allowance(o, sp) <= granted[<<o, sp>>].approved

\* C19 witness: after an approve, a spend and a second approve, part of the
\* newly approved amount has been spent and part is left.
C19_Witness ==
    \E o \in Accounts, sp \in Accounts :
        /\ granted[<<o, sp>>].spent > 0
        /\ allowance(o, sp) > 0
        /\ \E i \in 1..Len(events), j \in 1..Len(events), k \in 1..Len(events) :
              /\ i < j /\ j < k /\ k < Len(events)
              /\ events[i].kind = "Approval" /\ events[i].from = o
              /\ events[i].to = sp
              /\ events[j].kind = "Transfer" /\ events[j].from = o
              /\ events[j].value > 0
              /\ events[k].kind = "Approval" /\ events[k].from = o
              /\ events[k].to = sp
              /\ LastEvent.kind = "Transfer" /\ LastEvent.from = o

\* C20: transfer(to, 0) succeeds for every caller and transfer_from(from,
\* to, 0) for every caller, from and to, with no balance and no approval
\* needed; each leaves every balance_of and allowance result unchanged and
\* adds one Transfer event of value 0 naming from.
C20_ZeroAmount ==
    [][/\ \A c \in Accounts, t \in Accounts :
            transfer(c, t, 0) =>
              /\ last' = Call(OpTransfer, Ok)
              /\ \A a \in Accounts :
                    BalanceOfIn(balances', a) = balance_of(a)
              /\ \A o \in Accounts, sp \in Accounts :
                    AllowanceIn(allowances', o, sp) = allowance(o, sp)
              /\ events' = Append(events, Transfer(c, t, 0))
       /\ \A c \in Accounts, f \in Accounts, t \in Accounts :
            transfer_from(c, f, t, 0) =>
              /\ last' = Call(OpTransferFrom, Ok)
              /\ \A a \in Accounts :
                    BalanceOfIn(balances', a) = balance_of(a)
              /\ \A o \in Accounts, sp \in Accounts :
                    AllowanceIn(allowances', o, sp) = allowance(o, sp)
              /\ events' = Append(events, Transfer(f, t, 0))]_vars

\* C20 witness: a transfer_from of 0 has succeeded against an account that
\* holds nothing and has approved nobody.
C20_Witness ==
    /\ last = Call(OpTransferFrom, Ok)
    /\ LastEvent.kind = "Transfer"
    /\ LastEvent.value = 0
    /\ LastEvent.from # ctor.caller
    /\ balance_of(LastEvent.from) = 0
    /\ \A c \in Accounts : granted[<<LastEvent.from, c>>].approved = 0

====
